---- MODULE Spec2Model ----
(***************************************************************************)
(* Oscar voice notes: the transcript reconciler (mergeTranscripts and the  *)
(* callbacks that feed it), the recording page's session life cycle and    *)
(* the text structurer (formatWithAI and its tiers).                       *)
(*                                                                         *)
(* A JavaScript string is modelled as a sequence of characters, each       *)
(* character a one-element TLA+ string, so that slicing, prefix, suffix    *)
(* and containment are computed position by position as the code does.     *)
(***************************************************************************)
EXTENDS Integers, Sequences, FiniteSets, TLC

VARIABLES
    \* the reconciler applied to one pair of strings
    previous, incoming, merged, mergedButton, mpc,
    \* formatWithAI applied to one text under one outcome of the remote call
    rawText, response, heuristicFault, formatResult, fpc,
    \* RecordingPage: the router, the component's state and refs
    route, isInitializing, sttRef, isRecording, isProcessing,
    currentTranscript, accumulatedTranscriptRef,
    \* the recognizer behind sttRef: "idle", "listening" or "stopping"
    sttState,
    \* the transcripts passed to the callback since the buffer was last reset
    delivered,
    \* handleStop: where it is, the currentTranscript its closure holds, and
    \* its locals
    stopPc, closureTranscript, transcribedText, attempts,
    \* sessionStorage: whether the note was stored, and its two items
    stored, storedFormattedNote, storedRawText,
    \* formatAudioPenStyle applied to one text: its argument, its locals
    \* cleaned and sentences, the format it dispatches to, what it returns,
    \* and where it is
    penText, penCleaned, penSentences, penFormat, penResult, penPc,
    \* generateTitle applied to one text under one outcome of the remote
    \* title call: its argument, the outcome, the requests issued so far,
    \* what it returns or throws, and where it is
    titleText, titleResponse, titleRequests, titleResult, titlePc

mergeVars == <<previous, incoming, merged, mergedButton, mpc>>
formatVars == <<rawText, response, heuristicFault, formatResult, fpc>>
pageVars ==
    <<route, isInitializing, sttRef, isRecording, isProcessing, currentTranscript,
      accumulatedTranscriptRef, sttState, delivered, stopPc, closureTranscript,
      transcribedText, attempts, stored, storedFormattedNote, storedRawText>>
structureVars == <<penText, penCleaned, penSentences, penFormat, penResult, penPc>>
titleVars == <<titleText, titleResponse, titleRequests, titleResult, titlePc>>
vars == <<mergeVars, formatVars, pageVars, structureVars, titleVars>>

(***************************************************************************)
(* Bounds                                                                  *)
(***************************************************************************)
\* longest string handed to the reconciler as previous or incoming
MaxLen == 3
\* most tokens in a text handed to formatWithAI
MaxTokens == 3
\* most transcripts the recognizer delivers in one recording session
MaxEvents == 3
\* longest text, in characters, whose normalisation is examined
MaxChars == 4
\* most sentences in a text built from the sentences with signal words
MaxSentences == 4
\* most sentences in a text built from the plain sentences
MaxPlain == 7
\* longest short text, in characters, handed to generateTitle
MaxTitleChars == 4
\* by how many characters the longest first sentence handed to generateTitle
\* exceeds the limit of a title
MaxOver == 2

(***************************************************************************)
(* Strings                                                                 *)
(***************************************************************************)
Space == " "
Tab == "\t"
\* the characters of the reconciler's inputs: two letters, the space and a
\* whitespace character that is not the space
MergeChars == {"a", "b", Space, Tab}

StringsUpTo(chars, n) == UNION {[1..k -> chars] : k \in 0..n}

Min(a, b) == IF a <= b THEN a ELSE b

\* String.prototype.startsWith
startsWith(s, p) == Len(p) <= Len(s) /\ SubSeq(s, 1, Len(p)) = p

\* String.prototype.endsWith
endsWith(s, p) == Len(p) <= Len(s) /\ SubSeq(s, Len(s) - Len(p) + 1, Len(s)) = p

\* String.prototype.includes
includes(s, p) == \E i \in 0..(Len(s) - Len(p)) : SubSeq(s, i + 1, i + Len(p)) = p

\* s.slice(-i) for 1 <= i <= s.length: the last i characters
sliceLast(s, i) == SubSeq(s, Len(s) - i + 1, Len(s))

\* s.slice(0, i) for 0 <= i: the first i characters
sliceFirst(s, i) == SubSeq(s, 1, Min(i, Len(s)))

\* s.slice(i) for 0 <= i: all but the first i characters
sliceFrom(s, i) == SubSeq(s, i + 1, Len(s))

(***************************************************************************)
(* mergeTranscripts, the recording page's copy                             *)
(***************************************************************************)
\* a variant that forgets the test of previous's last character
mergeFallbackAlwaysSpace(prev, inc) == prev \o <<Space>> \o inc

\* the fallback: append with a separating space
mergeFallback(prev, inc) ==
    prev \o (IF endsWith(prev, <<Space>>) THEN <<>> ELSE <<Space>>) \o inc

\* a variant of the loop that scans upwards from 1 to max and so takes the
\* shortest overlap
RECURSIVE mergeOverlapUp(_, _, _, _)
mergeOverlapUp(prev, inc, i, max) ==
    IF i <= max
    THEN IF sliceLast(prev, i) = sliceFirst(inc, i)
         THEN prev \o sliceFrom(inc, i)
         ELSE mergeOverlapUp(prev, inc, i + 1, max)
    ELSE prev \o (IF endsWith(prev, <<Space>>) THEN <<>> ELSE <<Space>>) \o inc

mergeOverlapLoopShortest(prev, inc, i) == mergeOverlapUp(prev, inc, 1, i)

\* the loop "for (let i = max; i > 0; i--)" entered with counter i
RECURSIVE mergeOverlapLoop(_, _, _)
mergeOverlapLoop(prev, inc, i) ==
    IF i > 0
    THEN IF sliceLast(prev, i) = sliceFirst(inc, i)
         THEN prev \o sliceFrom(inc, i)
         ELSE mergeOverlapLoop(prev, inc, i - 1)
    ELSE mergeFallback(prev, inc)

\* a variant without the test incoming.includes(previous)
mergeTranscriptsPrefixOnly(prev, inc) ==
    IF inc = <<>> THEN prev
    ELSE IF prev = <<>> THEN inc
    ELSE IF startsWith(inc, prev) THEN inc
    ELSE IF includes(prev, inc) THEN prev
    ELSE mergeOverlapLoop(prev, inc, Min(Len(prev), Len(inc)))

\* a variant without the test previous.includes(incoming)
mergeTranscriptsNoStale(prev, inc) ==
    IF inc = <<>> THEN prev
    ELSE IF prev = <<>> THEN inc
    ELSE IF startsWith(inc, prev) THEN inc
    ELSE IF includes(inc, prev) THEN inc
    ELSE mergeOverlapLoop(prev, inc, Min(Len(prev), Len(inc)))

\* a variant whose two empty-string guards return the tested string
mergeTranscriptsEmptyGuards(prev, inc) ==
    IF inc = <<>> THEN inc
    ELSE IF prev = <<>> THEN prev
    ELSE IF startsWith(inc, prev) THEN inc
    ELSE IF includes(inc, prev) THEN inc
    ELSE IF includes(prev, inc) THEN prev
    ELSE mergeOverlapLoop(prev, inc, Min(Len(prev), Len(inc)))

\* a variant that keeps the buffer when the update neither contains it nor is
\* contained in it
mergeTranscriptsKeepsBuffer(prev, inc) ==
    IF inc = <<>> THEN prev
    ELSE IF prev = <<>> THEN inc
    ELSE IF startsWith(inc, prev) THEN inc
    ELSE IF includes(inc, prev) THEN inc
    ELSE prev

\* a variant that prefers the latest update to the buffer that contains it
mergeTranscriptsLatestWins(prev, inc) ==
    IF inc = <<>> THEN prev
    ELSE IF prev = <<>> THEN inc
    ELSE IF startsWith(inc, prev) THEN inc
    ELSE IF includes(inc, prev) THEN inc
    ELSE IF includes(prev, inc) THEN inc
    ELSE mergeOverlapLoop(prev, inc, Min(Len(prev), Len(inc)))

mergeTranscripts(prev, inc) ==
    IF inc = <<>> THEN prev
    ELSE IF prev = <<>> THEN inc
    ELSE IF startsWith(inc, prev) THEN inc
    ELSE IF includes(inc, prev) THEN inc
    ELSE IF includes(prev, inc) THEN prev
    ELSE mergeOverlapLoop(prev, inc, Min(Len(prev), Len(inc)))

(***************************************************************************)
(* mergeTranscripts, the RecordingButton component's copy                  *)
(***************************************************************************)
RECURSIVE mergeOverlapLoopButton(_, _, _)
mergeOverlapLoopButton(prev, inc, i) ==
    IF i > 0
    THEN IF sliceLast(prev, i) = sliceFirst(inc, i)
         THEN prev \o sliceFrom(inc, i)
         ELSE mergeOverlapLoopButton(prev, inc, i - 1)
    ELSE prev \o (IF endsWith(prev, <<Space>>) THEN <<>> ELSE <<Space>>) \o inc

\* a variant of this copy that skips the overlap loop
mergeTranscriptsButtonNoOverlap(prev, inc) ==
    IF inc = <<>> THEN prev
    ELSE IF prev = <<>> THEN inc
    ELSE IF startsWith(inc, prev) THEN inc
    ELSE IF includes(inc, prev) THEN inc
    ELSE IF includes(prev, inc) THEN prev
    ELSE prev \o (IF endsWith(prev, <<Space>>) THEN <<>> ELSE <<Space>>) \o inc

mergeTranscriptsButton(prev, inc) ==
    IF inc = <<>> THEN prev
    ELSE IF prev = <<>> THEN inc
    ELSE IF startsWith(inc, prev) THEN inc
    ELSE IF includes(inc, prev) THEN inc
    ELSE IF includes(prev, inc) THEN prev
    ELSE mergeOverlapLoopButton(prev, inc, Min(Len(prev), Len(inc)))

(***************************************************************************)
(* Characters and the String methods the structurer uses                   *)
(***************************************************************************)
Newline == "\n"
\* U+2022 (the bullet glyph), U+2026 (the ellipsis) and U+0060 (the backtick):
\* one character each
Bullet == "bullet"
Ellipsis == "ellipsis"
Backtick == "backtick"

\* what \s and String.prototype.trim count as whitespace
WhitespaceChars == {Space, Tab, Newline, "\r", "\f"}

\* the class [,.!?] of the normalisation
PunctChars == {",", ".", "!", "?"}

\* the class [.!?] that ends a sentence
SentenceEndChars == {".", "!", "?"}

UpperToLower ==
    [c \in {"A", "B", "C", "D", "E", "F", "G", "H", "I", "J", "K", "L", "M", "N",
            "O", "P", "Q", "R", "S", "T", "U", "V", "W", "X", "Y", "Z"} |->
        CASE c = "A" -> "a" [] c = "B" -> "b" [] c = "C" -> "c" [] c = "D" -> "d"
          [] c = "E" -> "e" [] c = "F" -> "f" [] c = "G" -> "g" [] c = "H" -> "h"
          [] c = "I" -> "i" [] c = "J" -> "j" [] c = "K" -> "k" [] c = "L" -> "l"
          [] c = "M" -> "m" [] c = "N" -> "n" [] c = "O" -> "o" [] c = "P" -> "p"
          [] c = "Q" -> "q" [] c = "R" -> "r" [] c = "S" -> "s" [] c = "T" -> "t"
          [] c = "U" -> "u" [] c = "V" -> "v" [] c = "W" -> "w" [] c = "X" -> "x"
          [] c = "Y" -> "y" [] c = "Z" -> "z"]

\* the class [\w] of the code-fence pattern
WordChars ==
    DOMAIN UpperToLower \cup {UpperToLower[c] : c \in DOMAIN UpperToLower}
        \cup {"0", "1", "2", "3", "4", "5", "6", "7", "8", "9", "_"}

\* String.prototype.toLowerCase
toLowerCase(s) ==
    [k \in 1..Len(s) |-> IF s[k] \in DOMAIN UpperToLower THEN UpperToLower[s[k]] ELSE s[k]]

\* the number of leading characters of s that belong to class
RECURSIVE leadingRun(_, _)
leadingRun(s, class) ==
    IF s # <<>> /\ Head(s) \in class THEN 1 + leadingRun(Tail(s), class) ELSE 0

\* the number of trailing characters of s that belong to class
RECURSIVE trailingRun(_, _)
trailingRun(s, class) ==
    IF s # <<>> /\ s[Len(s)] \in class
    THEN 1 + trailingRun(SubSeq(s, 1, Len(s) - 1), class)
    ELSE 0

\* String.prototype.trim
trim(s) ==
    LET lead == leadingRun(s, WhitespaceChars)
    IN  IF lead = Len(s) THEN <<>>
        ELSE SubSeq(s, lead + 1, Len(s) - trailingRun(s, WhitespaceChars))

\* a string that is empty after trimming
isBlank(s) == trim(s) = <<>>

\* a test by a pattern w1|w2|... with the i flag: some alternative occurs in s
testAnyWord(s, words) == \E w \in words : includes(toLowerCase(s), w)

\* Array.prototype.join
RECURSIVE join(_, _)
join(parts, sep) ==
    IF parts = <<>> THEN <<>>
    ELSE IF Len(parts) = 1 THEN parts[1]
    ELSE parts[1] \o sep \o join(Tail(parts), sep)

\* Array.prototype.filter(s => s.length > 0) after map(s => s.trim())
RECURSIVE trimAndDropEmpty(_)
trimAndDropEmpty(parts) ==
    IF parts = <<>> THEN <<>>
    ELSE (IF isBlank(parts[1]) THEN <<>> ELSE <<trim(parts[1])>>)
             \o trimAndDropEmpty(Tail(parts))

(***************************************************************************)
(* The heuristic structurer, formatAudioPenStyle, and its three formats    *)
(***************************************************************************)
\* text.replace(/\s+/g, ' '): every run of whitespace becomes one space
RECURSIVE collapseWhitespace(_)
collapseWhitespace(s) ==
    IF s = <<>> THEN <<>>
    ELSE IF Head(s) \in WhitespaceChars
         THEN <<Space>> \o collapseWhitespace(
                  SubSeq(s, leadingRun(s, WhitespaceChars) + 1, Len(s)))
         ELSE <<Head(s)>> \o collapseWhitespace(Tail(s))

\* .replace(/\s+([,.!?])/g, '$1'): a run of whitespace that a punctuation
\* character follows is removed; the scan resumes after that character
RECURSIVE dropSpaceBeforePunct(_)
dropSpaceBeforePunct(s) ==
    IF s = <<>> THEN <<>>
    ELSE IF Head(s) \in WhitespaceChars
         THEN LET run == leadingRun(s, WhitespaceChars)
                  rest == SubSeq(s, run + 1, Len(s))
              IN  IF rest # <<>> /\ Head(rest) \in PunctChars
                  THEN <<Head(rest)>> \o dropSpaceBeforePunct(Tail(rest))
                  ELSE SubSeq(s, 1, run) \o dropSpaceBeforePunct(rest)
         ELSE <<Head(s)>> \o dropSpaceBeforePunct(Tail(s))

\* .replace(/([,.!?])([^\s])/g, '$1 $2'): a punctuation character and the
\* non-whitespace character after it get a space between them; the match
\* consumes both, so the scan resumes after the second
RECURSIVE addSpaceAfterPunct(_)
addSpaceAfterPunct(s) ==
    IF s = <<>> THEN <<>>
    ELSE IF Head(s) \in PunctChars /\ Len(s) >= 2 /\ s[2] \notin WhitespaceChars
         THEN <<s[1], Space, s[2]>> \o addSpaceAfterPunct(SubSeq(s, 3, Len(s)))
         ELSE <<Head(s)>> \o addSpaceAfterPunct(Tail(s))

\* a variant of addSpaceAfterPunct that puts a space after every punctuation
\* character, whatever follows it
RECURSIVE addSpaceAfterEveryPunct(_)
addSpaceAfterEveryPunct(s) ==
    IF s = <<>> THEN <<>>
    ELSE IF Head(s) \in PunctChars
         THEN <<Head(s), Space>> \o addSpaceAfterEveryPunct(Tail(s))
         ELSE <<Head(s)>> \o addSpaceAfterEveryPunct(Tail(s))

\* a variant of the clean-up with that replacement, and without the trim
normalizeAlwaysSpace(text) ==
    addSpaceAfterEveryPunct(dropSpaceBeforePunct(collapseWhitespace(text)))

\* the clean-up of formatAudioPenStyle: the three replacements, then trim
normalize(text) ==
    trim(addSpaceAfterPunct(dropSpaceBeforePunct(collapseWhitespace(text))))

\* cleaned.split(/(?<=[.!?])\s+/), with cur the piece read so far: a run of
\* whitespace is a separator when the character before it ends a sentence
RECURSIVE splitAfterSentenceEnd(_, _)
splitAfterSentenceEnd(s, cur) ==
    IF s = <<>> THEN <<cur>>
    ELSE IF /\ Head(s) \in WhitespaceChars
            /\ cur # <<>>
            /\ cur[Len(cur)] \in SentenceEndChars
         THEN <<cur>> \o splitAfterSentenceEnd(
                  SubSeq(s, leadingRun(s, WhitespaceChars) + 1, Len(s)), <<>>)
         ELSE splitAfterSentenceEnd(Tail(s), Append(cur, Head(s)))

\* the sentences of a cleaned text: split, trim each, drop the empty ones
splitSentences(cleaned) == trimAndDropEmpty(splitAfterSentenceEnd(cleaned, <<>>))

\* /meeting|discuss|agenda|action|follow-up|team|project/i
MeetingWords ==
    { <<"m", "e", "e", "t", "i", "n", "g">>,
      <<"d", "i", "s", "c", "u", "s", "s">>,
      <<"a", "g", "e", "n", "d", "a">>,
      <<"a", "c", "t", "i", "o", "n">>,
      <<"f", "o", "l", "l", "o", "w", "-", "u", "p">>,
      <<"t", "e", "a", "m">>,
      <<"p", "r", "o", "j", "e", "c", "t">> }

\* /first|second|third|then|next|also|additionally|finally|pehle|phir|baad|uske/i
ListWords ==
    { <<"f", "i", "r", "s", "t">>,
      <<"s", "e", "c", "o", "n", "d">>,
      <<"t", "h", "i", "r", "d">>,
      <<"t", "h", "e", "n">>,
      <<"n", "e", "x", "t">>,
      <<"a", "l", "s", "o">>,
      <<"a", "d", "d", "i", "t", "i", "o", "n", "a", "l", "l", "y">>,
      <<"f", "i", "n", "a", "l", "l", "y">>,
      <<"p", "e", "h", "l", "e">>,
      <<"p", "h", "i", "r">>,
      <<"b", "a", "a", "d">>,
      <<"u", "s", "k", "e">> }

\* /need to|should|must|will|going to|plan to|karna|hoga|chahiye/i
ActionWords ==
    { <<"n", "e", "e", "d", Space, "t", "o">>,
      <<"s", "h", "o", "u", "l", "d">>,
      <<"m", "u", "s", "t">>,
      <<"w", "i", "l", "l">>,
      <<"g", "o", "i", "n", "g", Space, "t", "o">>,
      <<"p", "l", "a", "n", Space, "t", "o">>,
      <<"k", "a", "r", "n", "a">>,
      <<"h", "o", "g", "a">>,
      <<"c", "h", "a", "h", "i", "y", "e">> }

\* /need to|should|must|will|going to|plan to|action|task|todo|karna|hoga|chahiye/i
ActionSentenceWords ==
    { <<"n", "e", "e", "d", Space, "t", "o">>,
      <<"s", "h", "o", "u", "l", "d">>,
      <<"m", "u", "s", "t">>,
      <<"w", "i", "l", "l">>,
      <<"g", "o", "i", "n", "g", Space, "t", "o">>,
      <<"p", "l", "a", "n", Space, "t", "o">>,
      <<"a", "c", "t", "i", "o", "n">>,
      <<"t", "a", "s", "k">>,
      <<"t", "o", "d", "o">>,
      <<"k", "a", "r", "n", "a">>,
      <<"h", "o", "g", "a">>,
      <<"c", "h", "a", "h", "i", "y", "e">> }

\* /discuss|talk|review|decide|decided|agreed|baat|charcha/i
DiscussionWords ==
    { <<"d", "i", "s", "c", "u", "s", "s">>,
      <<"t", "a", "l", "k">>,
      <<"r", "e", "v", "i", "e", "w">>,
      <<"d", "e", "c", "i", "d", "e">>,
      <<"d", "e", "c", "i", "d", "e", "d">>,
      <<"a", "g", "r", "e", "e", "d">>,
      <<"b", "a", "a", "t">>,
      <<"c", "h", "a", "r", "c", "h", "a">> }

\* the alternatives of /^(I|we|they|you|main|hum)\s+/i, in their order
Pronouns ==
    << <<"i">>,
       <<"w", "e">>,
       <<"t", "h", "e", "y">>,
       <<"y", "o", "u">>,
       <<"m", "a", "i", "n">>,
       <<"h", "u", "m">> >>

\* transitionWords of isTopicChange
TransitionWords ==
    { <<"h", "o", "w", "e", "v", "e", "r">>,
      <<"b", "u", "t">>,
      <<"a", "l", "s", "o">>,
      <<"a", "d", "d", "i", "t", "i", "o", "n", "a", "l", "l", "y">>,
      <<"f", "u", "r", "t", "h", "e", "r", "m", "o", "r", "e">>,
      <<"m", "e", "a", "n", "w", "h", "i", "l", "e">>,
      <<"n", "e", "x", "t">>,
      <<"t", "h", "e", "n">>,
      <<"n", "o", "w">>,
      <<"l", "e", "k", "i", "n">>,
      <<"p", "a", "r">>,
      <<"a", "u", "r">>,
      <<"p", "h", "i", "r">> }

isMeeting(cleaned) == testAnyWord(cleaned, MeetingWords)
isList(cleaned) == testAnyWord(cleaned, ListWords)
hasActionItems(cleaned) == testAnyWord(cleaned, ActionWords)

\* a variant of isTopicChange that never sees a change of topic
isTopicChangeNever(sentence1, sentence2) == FALSE

\* isTopicChange(sentence1, sentence2): sentence2 starts with a transition word
isTopicChange(sentence1, sentence2) ==
    \E word \in TransitionWords : startsWith(toLowerCase(sentence2), word)

\* the loop of formatNaturalStyle at index i (from 1), with the paragraph
\* being filled and the text built so far
RECURSIVE naturalLoop(_, _, _, _)
naturalLoop(sentences, i, currentParagraph, result) ==
    IF i > Len(sentences) THEN result
    ELSE LET paragraph == Append(currentParagraph, sentences[i])
             shouldBreak ==
                 \/ Len(paragraph) >= 4
                 \/ (i < Len(sentences) /\ isTopicChange(sentences[i], sentences[i + 1]))
         IN  IF shouldBreak \/ i = Len(sentences)
             THEN naturalLoop(sentences, i + 1, <<>>,
                      result \o join(paragraph, <<Space>>) \o <<Newline, Newline>>)
             ELSE naturalLoop(sentences, i + 1, paragraph, result)

formatNaturalStyle(sentences) == trim(naturalLoop(sentences, 1, <<>>, <<>>))

\* a variant of stripListMarker that leaves the marker in place
stripListMarkerNone(s) == s

\* s.replace(/^[-*]\s*/, '') with the bullet glyph in the class as well
stripListMarker(s) ==
    IF s # <<>> /\ Head(s) \in {"-", Bullet, "*"}
    THEN SubSeq(s, 2 + leadingRun(Tail(s), WhitespaceChars), Len(s))
    ELSE s

\* the bullet line of one sentence
listLine(s) == <<Bullet, Space>> \o trim(stripListMarker(s))

formatListStyle(sentences) ==
    join([k \in 1..Len(sentences) |-> listLine(sentences[k])], <<Newline>>)

\* sentence.replace(/^(I|we|they|you|main|hum)\s+/i, ''), trying the
\* alternatives from index k on
RECURSIVE stripPronounFrom(_, _)
stripPronounFrom(sentence, k) ==
    IF k > Len(Pronouns) THEN sentence
    ELSE LET p == Pronouns[k]
             rest == SubSeq(sentence, Len(p) + 1, Len(sentence))
         IN  IF /\ startsWith(toLowerCase(sentence), p)
                /\ leadingRun(rest, WhitespaceChars) > 0
             THEN SubSeq(rest, leadingRun(rest, WhitespaceChars) + 1, Len(rest))
             ELSE stripPronounFrom(sentence, k + 1)

stripPronoun(sentence) == stripPronounFrom(sentence, 1)

\* a variant of bucketOf that tests for an action item before a question
bucketOfActionFirst(sentence) ==
    IF testAnyWord(sentence, ActionSentenceWords) THEN "actionItems"
    ELSE IF includes(sentence, <<"?">>) THEN "questions"
    ELSE IF testAnyWord(sentence, DiscussionWords) THEN "discussion"
    ELSE "other"

\* the bucket formatMeetingStyle puts a sentence into
bucketOf(sentence) ==
    IF includes(sentence, <<"?">>) THEN "questions"
    ELSE IF testAnyWord(sentence, ActionSentenceWords) THEN "actionItems"
    ELSE IF testAnyWord(sentence, DiscussionWords) THEN "discussion"
    ELSE "other"

\* a variant of bucket that leaves the bucket of the other sentences empty
RECURSIVE bucketNoOther(_, _)
bucketNoOther(sentences, name) ==
    IF sentences = <<>> \/ name = "other" THEN <<>>
    ELSE (IF bucketOf(sentences[1]) = name
          THEN <<IF name = "actionItems" THEN stripPronoun(sentences[1])
                 ELSE sentences[1]>>
          ELSE <<>>) \o bucketNoOther(Tail(sentences), name)

\* the contents of one bucket after the forEach, in the sentences' order
RECURSIVE bucket(_, _)
bucket(sentences, name) ==
    IF sentences = <<>> THEN <<>>
    ELSE (IF bucketOf(sentences[1]) = name
          THEN <<IF name = "actionItems" THEN stripPronoun(sentences[1])
                 ELSE sentences[1]>>
          ELSE <<>>) \o bucket(Tail(sentences), name)

\* the lines of a section: each item preceded by prefix, followed by suffix
RECURSIVE sectionItems(_, _, _)
sectionItems(items, prefix, suffix) ==
    IF items = <<>> THEN <<>>
    ELSE prefix \o items[1] \o suffix \o sectionItems(Tail(items), prefix, suffix)

DiscussionHeading == <<"K", "e", "y", Space, "D", "i", "s", "c", "u", "s", "s", "i", "o", "n", Space, "P", "o", "i", "n", "t", "s", ":", Newline, Newline>>
ActionHeading == <<"A", "c", "t", "i", "o", "n", Space, "I", "t", "e", "m", "s", ":", Newline, Newline>>
QuestionsHeading == <<"Q", "u", "e", "s", "t", "i", "o", "n", "s", ":", Newline, Newline>>
NotesHeading == <<"N", "o", "t", "e", "s", ":", Newline, Newline>>

formatMeetingStyle(sentences) ==
    LET discussion == bucket(sentences, "discussion")
        actionItems == bucket(sentences, "actionItems")
        questions == bucket(sentences, "questions")
        other == bucket(sentences, "other")
        result ==
            (IF Len(discussion) > 0
             THEN DiscussionHeading
                      \o sectionItems(discussion, <<Bullet, Space>>, <<Newline>>)
                      \o <<Newline>>
             ELSE <<>>)
            \o (IF Len(actionItems) > 0
                THEN ActionHeading
                         \o sectionItems(actionItems, <<Bullet, Space>>, <<Newline>>)
                         \o <<Newline>>
                ELSE <<>>)
            \o (IF Len(questions) > 0
                THEN QuestionsHeading
                         \o sectionItems(questions, <<Bullet, Space>>, <<Newline>>)
                         \o <<Newline>>
                ELSE <<>>)
            \o (IF Len(other) > 0
                THEN NotesHeading \o sectionItems(other, <<>>, <<Newline, Newline>>)
                ELSE <<>>)
    IN  IF trim(result) # <<>> THEN trim(result) ELSE join(sentences, <<Space>>)

\* a variant of the dispatch that tests for a list before a meeting
chooseFormatListFirst(cleaned, sentences) ==
    IF Len(sentences) = 0 THEN "cleaned"
    ELSE IF isList(cleaned) \/ Len(sentences) > 5 THEN "list"
    ELSE IF isMeeting(cleaned) /\ (hasActionItems(cleaned) \/ isList(cleaned))
         THEN "meeting"
    ELSE "natural"

\* the dispatch of formatAudioPenStyle: "cleaned" when there is no sentence,
\* or else the format the sentences are handed to
chooseFormat(cleaned, sentences) ==
    IF Len(sentences) = 0 THEN "cleaned"
    ELSE IF isMeeting(cleaned) /\ (hasActionItems(cleaned) \/ isList(cleaned))
         THEN "meeting"
    ELSE IF isList(cleaned) \/ Len(sentences) > 5 THEN "list"
    ELSE "natural"

\* formatAudioPenStyle when no exception interrupts it
formatAudioPenStyle(text) ==
    IF text = <<>> \/ isBlank(text) THEN text
    ELSE LET cleaned == normalize(text)
             sentences == splitSentences(cleaned)
         IN  IF Len(sentences) = 0 THEN cleaned
             ELSE IF isMeeting(cleaned) /\ (hasActionItems(cleaned) \/ isList(cleaned))
                  THEN formatMeetingStyle(sentences)
             ELSE IF isList(cleaned) \/ Len(sentences) > 5
                  THEN formatListStyle(sentences)
             ELSE formatNaturalStyle(sentences)

(***************************************************************************)
(* The trivial tier, formatBasic                                           *)
(***************************************************************************)
\* text.split(/[.!?]+/), with cur the piece read so far
RECURSIVE splitOnSentenceEnds(_, _)
splitOnSentenceEnds(s, cur) ==
    IF s = <<>> THEN <<cur>>
    ELSE IF Head(s) \in SentenceEndChars
         THEN <<cur>> \o splitOnSentenceEnds(
                  SubSeq(s, leadingRun(s, SentenceEndChars) + 1, Len(s)), <<>>)
         ELSE splitOnSentenceEnds(Tail(s), Append(cur, Head(s)))

formatBasic(text) ==
    LET kept == trimAndDropEmpty(splitOnSentenceEnds(text, <<>>))
    IN  join([k \in 1..Len(kept) |-> <<Bullet, Space>> \o kept[k]], <<Newline>>)

(***************************************************************************)
(* The remote tier, formatWithDeepseek                                     *)
(*                                                                         *)
(* A response is what the fetch of the chat-completion endpoint ends in:   *)
(*   kind "network"  the fetch rejects (transport error)                   *)
(*   kind "status"   response.ok is false                                  *)
(*   kind "badjson"  response.json() rejects (the body is not JSON)        *)
(*   kind "json"     a JSON body; hasMessage says whether                  *)
(*                   data.choices[0].message exists, hasContent whether    *)
(*                   its content is a string, content that string          *)
(***************************************************************************)
Response(kind, hasMessage, hasContent, content) ==
    [kind |-> kind, hasMessage |-> hasMessage, hasContent |-> hasContent,
     content |-> content]

NetworkError == Response("network", FALSE, FALSE, <<>>)
StatusError == Response("status", FALSE, FALSE, <<>>)
BadJson == Response("badjson", FALSE, FALSE, <<>>)
\* a JSON body without choices[0].message
NoMessage == Response("json", FALSE, FALSE, <<>>)
\* a message whose content is missing or null
NoContent == Response("json", TRUE, FALSE, <<>>)
Completion(content) == Response("json", TRUE, TRUE, content)

\* .replace(/^```[\w]*\n/, ''): an opening code fence at the start
stripFenceOpen(s) ==
    IF startsWith(s, <<Backtick, Backtick, Backtick>>)
    THEN LET afterTicks == SubSeq(s, 4, Len(s))
             afterWord == SubSeq(afterTicks, leadingRun(afterTicks, WordChars) + 1,
                                 Len(afterTicks))
         IN  IF afterWord # <<>> /\ Head(afterWord) = Newline
             THEN Tail(afterWord)
             ELSE s
    ELSE s

\* .replace(/\n```$/, ''): a closing code fence at the end
stripFenceClose(s) ==
    IF endsWith(s, <<Newline, Backtick, Backtick, Backtick>>)
    THEN SubSeq(s, 1, Len(s) - 4)
    ELSE s

\* formatWithDeepseek: the value returned, or threw when it throws.  It
\* throws on a rejected fetch, on a non-success status, on a body that is not
\* JSON, on a body without choices[0].message, and (a TypeError of
\* content.trim()) on a message without string content; the catch of lines
\* 125-128 throws the error again.
formatWithDeepseek(text, resp) ==
    IF resp.kind = "json" /\ resp.hasMessage /\ resp.hasContent
    THEN [threw |-> FALSE,
          value |-> trim(stripFenceClose(stripFenceOpen(trim(resp.content))))]
    ELSE [threw |-> TRUE, value |-> <<>>]

(***************************************************************************)
(* formatWithAI                                                            *)
(*                                                                         *)
(* fault stands for an exception raised inside formatAudioPenStyle (an    *)
(* engine error such as a RangeError on a huge text): the case the catch   *)
(* clause around it exists for.                                            *)
(***************************************************************************)
\* formatAudioPenStyle as formatWithAI awaits it
heuristicTier(text, fault) ==
    IF fault
    THEN [threw |-> TRUE, value |-> <<>>]
    ELSE [threw |-> FALSE, value |-> formatAudioPenStyle(text)]

\* a variant without the inner try/catch: an exception of the heuristic
\* structurer escapes
formatWithAINoInnerCatch(text, resp, fault) ==
    LET remote == formatWithDeepseek(text, resp)
        heuristic == heuristicTier(text, fault)
    IN  IF ~remote.threw
        THEN [threw |-> FALSE, value |-> remote.value, tiers |-> <<"remote">>]
        ELSE [threw |-> heuristic.threw, value |-> heuristic.value,
              tiers |-> <<"remote", "heuristic">>]

\* a variant that runs the heuristic structurer first and the remote call
\* only when it fails
formatWithAIHeuristicFirst(text, resp, fault) ==
    LET remote == formatWithDeepseek(text, resp)
        heuristic == heuristicTier(text, fault)
    IN  IF ~heuristic.threw
        THEN [threw |-> FALSE, value |-> heuristic.value, tiers |-> <<"heuristic">>]
        ELSE IF ~remote.threw
        THEN [threw |-> FALSE, value |-> remote.value,
              tiers |-> <<"heuristic", "remote">>]
        ELSE [threw |-> FALSE, value |-> formatBasic(text),
              tiers |-> <<"heuristic", "remote", "trivial">>]

\* formatWithAI: whether it throws, the string it returns and the tiers it
\* ran, in their order
formatWithAI(text, resp, fault) ==
    LET remote == formatWithDeepseek(text, resp)
        heuristic == heuristicTier(text, fault)
    IN  IF ~remote.threw
        THEN [threw |-> FALSE, value |-> remote.value, tiers |-> <<"remote">>]
        ELSE IF ~heuristic.threw
        THEN [threw |-> FALSE, value |-> heuristic.value,
              tiers |-> <<"remote", "heuristic">>]
        ELSE [threw |-> FALSE, value |-> formatBasic(text),
              tiers |-> <<"remote", "heuristic", "trivial">>]

(***************************************************************************)
(* generateTitle                                                           *)
(***************************************************************************)
\* the class ["'\s] of sanitizeTitle
QuoteOrSpaceChars == {"\"", "'"} \cup WhitespaceChars

\* .replace(/[\r\n]+/g, ' '): every run of line breaks becomes one space
RECURSIVE replaceLineBreaks(_)
replaceLineBreaks(s) ==
    IF s = <<>> THEN <<>>
    ELSE IF Head(s) \in {"\r", Newline}
         THEN <<Space>> \o replaceLineBreaks(
                  SubSeq(s, leadingRun(s, {"\r", Newline}) + 1, Len(s)))
         ELSE <<Head(s)>> \o replaceLineBreaks(Tail(s))

\* .replace(/^["'\s]+|["'\s]+$/g, ''): the leading and the trailing run of
\* quotes and whitespace are removed
stripQuotes(s) ==
    LET lead == leadingRun(s, QuoteOrSpaceChars)
    IN  IF lead = Len(s) THEN <<>>
        ELSE SubSeq(s, lead + 1, Len(s) - trailingRun(s, QuoteOrSpaceChars))

sanitizeTitle(title) == trim(stripQuotes(replaceLineBreaks(title)))

\* generateTitleWithDeepseek: the value returned, or threw when it throws.
\* It throws on a rejected fetch, on a non-success status, on a body that is
\* not JSON, and when choices[0].message.content is missing or blank.
generateTitleWithDeepseek(text, resp) ==
    IF /\ resp.kind = "json"
       /\ resp.hasMessage
       /\ resp.hasContent
       /\ trim(resp.content) # <<>>
    THEN [threw |-> FALSE,
          value |-> trim(stripFenceClose(stripFenceOpen(trim(resp.content))))]
    ELSE [threw |-> TRUE, value |-> <<>>]

\* the lengths of the fallback title: a first sentence longer than
\* titleLimit is cut to titleKeep characters and an ellipsis
titleLimit == 60
titleKeep == 57

\* cleaned.match(/[^.!?]+[.!?]?/): the first run of characters that do not
\* end a sentence, with the sentence end after it if there is one; the empty
\* string stands for no match
firstMatch(cleaned) ==
    LET skipped == leadingRun(cleaned, SentenceEndChars)
        rest == SubSeq(cleaned, skipped + 1, Len(cleaned))
        body == leadingRun(rest, {rest[k] : k \in 1..Len(rest)} \ SentenceEndChars)
    IN  IF rest = <<>> THEN <<>>
        ELSE SubSeq(rest, 1, IF body < Len(rest) THEN body + 1 ELSE body)

\* the catch clause of generateTitle: the title made of the first sentence
titleFallback(source) ==
    LET cleaned == trim(collapseWhitespace(source))
        firstSentence == trim(firstMatch(cleaned))
        truncated ==
            IF Len(firstSentence) > titleLimit
            THEN trim(SubSeq(firstSentence, 1, titleKeep)) \o <<Ellipsis>>
            ELSE firstSentence
    IN  sanitizeTitle(IF truncated # <<>>
                      THEN truncated
                      ELSE SubSeq(cleaned, 1, Min(titleLimit, Len(cleaned))))

\* a variant of generateTitle without the try and catch around the remote call
generateTitleNoCatch(text, resp) ==
    LET source == trim(text)
        remote == generateTitleWithDeepseek(source, resp)
    IN  IF source = <<>> THEN [threw |-> FALSE, value |-> <<>>, requests |-> 0]
        ELSE IF ~remote.threw
        THEN [threw |-> FALSE, value |-> sanitizeTitle(remote.value), requests |-> 1]
        ELSE [threw |-> TRUE, value |-> <<>>, requests |-> 1]

\* a variant of generateTitle without the return on an empty source
generateTitleNoShortCircuit(text, resp) ==
    LET source == trim(text)
        remote == generateTitleWithDeepseek(source, resp)
    IN  IF ~remote.threw
        THEN [threw |-> FALSE, value |-> sanitizeTitle(remote.value), requests |-> 1]
        ELSE [threw |-> FALSE, value |-> titleFallback(source), requests |-> 1]

\* generateTitle: whether it throws, the title it returns and the number of
\* remote requests it issues
generateTitle(text, resp) ==
    LET source == trim(text)
        remote == generateTitleWithDeepseek(source, resp)
    IN  IF source = <<>> THEN [threw |-> FALSE, value |-> <<>>, requests |-> 0]
        ELSE IF ~remote.threw
        THEN [threw |-> FALSE, value |-> sanitizeTitle(remote.value), requests |-> 1]
        ELSE [threw |-> FALSE, value |-> titleFallback(source), requests |-> 1]

(***************************************************************************)
(* SpecMerge: the reconciler as a pure function.  Init draws the two       *)
(* arguments, the actions apply each copy of the function to them.         *)
(***************************************************************************)
MergeInputs == StringsUpTo(MergeChars, MaxLen)

\* no pair of arguments is being merged
MergeIdle ==
    /\ previous = <<>>
    /\ incoming = <<>>
    /\ merged = <<>>
    /\ mergedButton = <<>>
    /\ mpc = "idle"

\* no text is being structured
FormatIdle ==
    /\ rawText = <<>>
    /\ response = NetworkError
    /\ heuristicFault = FALSE
    /\ formatResult = [threw |-> FALSE, value |-> <<>>, tiers |-> <<>>]
    /\ fpc = "idle"

\* no recording page is mounted
PageIdle ==
    /\ route = "none"
    /\ isInitializing = FALSE
    /\ sttRef = "null"
    /\ isRecording = FALSE
    /\ isProcessing = FALSE
    /\ currentTranscript = <<>>
    /\ accumulatedTranscriptRef = <<>>
    /\ sttState = "idle"
    /\ delivered = <<>>
    /\ stopPc = "idle"
    /\ closureTranscript = <<>>
    /\ transcribedText = <<>>
    /\ attempts = 0
    /\ stored = FALSE
    /\ storedFormattedNote = <<>>
    /\ storedRawText = <<>>

\* formatAudioPenStyle is not running
StructureIdle ==
    /\ penText = <<>>
    /\ penCleaned = <<>>
    /\ penSentences = <<>>
    /\ penFormat = "none"
    /\ penResult = <<>>
    /\ penPc = "idle"

\* generateTitle is not running
TitleIdle ==
    /\ titleText = <<>>
    /\ titleResponse = NetworkError
    /\ titleRequests = 0
    /\ titleResult = [threw |-> FALSE, value |-> <<>>, requests |-> 0]
    /\ titlePc = "idle"

MergeInit ==
    /\ previous \in MergeInputs
    /\ incoming \in MergeInputs
    /\ merged = <<>>
    /\ mergedButton = <<>>
    /\ mpc = "args"
    /\ FormatIdle
    /\ PageIdle
    /\ StructureIdle
    /\ TitleIdle

\* the recording page calls its mergeTranscripts
MergePage ==
    /\ mpc = "args"
    /\ merged' = mergeTranscripts(previous, incoming)
    /\ mpc' = "page"
    /\ UNCHANGED <<previous, incoming, mergedButton, formatVars, pageVars, structureVars, titleVars>>

\* RecordingButton calls its mergeTranscripts on the same arguments
MergeButton ==
    /\ mpc = "page"
    /\ mergedButton' = mergeTranscriptsButton(previous, incoming)
    /\ mpc' = "both"
    /\ UNCHANGED <<previous, incoming, merged, formatVars, pageVars, structureVars, titleVars>>

MergeNext == MergePage \/ MergeButton

SpecMerge == MergeInit /\ [][MergeNext]_vars

(***************************************************************************)
(* SpecFormat: formatWithAI as a function of the text and of what the      *)
(* remote call and the heuristic structurer end in.                        *)
(***************************************************************************)
\* the pieces the texts are built from
FormatTokens ==
    { <<"a">>, <<Space>>, <<Newline>>, <<".">>, <<"?">>,
      <<"w", "i", "l", "l">>, <<"t", "e", "a", "m">>, <<"t", "h", "e", "n">> }

\* the concatenation of a sequence of tokens
RECURSIVE concat(_)
concat(tokens) == IF tokens = <<>> THEN <<>> ELSE tokens[1] \o concat(Tail(tokens))

FormatTexts == {concat(ts) : ts \in StringsUpTo(FormatTokens, MaxTokens)}

\* the completion contents of a success response
Completions ==
    { <<>>,
      <<Space>>,
      <<"o", "k">>,
      <<Space, "o", "k", Newline>>,
      <<Backtick, Backtick, Backtick, Newline, "o", "k", Newline,
        Backtick, Backtick, Backtick>>,
      <<Backtick, Backtick, Backtick, "j", "s", Newline, Newline,
        Backtick, Backtick, Backtick>> }

Responses ==
    {NetworkError, StatusError, BadJson, NoMessage, NoContent}
        \cup {Completion(c) : c \in Completions}

FormatInit ==
    /\ rawText \in FormatTexts
    /\ response \in Responses
    /\ heuristicFault \in BOOLEAN
    /\ formatResult = [threw |-> FALSE, value |-> <<>>, tiers |-> <<>>]
    /\ fpc = "called"
    /\ MergeIdle
    /\ PageIdle
    /\ StructureIdle
    /\ TitleIdle

\* formatWithAI(rawText) settles
FormatSettles ==
    /\ fpc = "called"
    /\ formatResult' = formatWithAI(rawText, response, heuristicFault)
    /\ fpc' = "settled"
    /\ UNCHANGED <<rawText, response, heuristicFault, mergeVars, pageVars, structureVars, titleVars>>

FormatNext == FormatSettles

SpecFormat == FormatInit /\ [][FormatNext]_vars

(***************************************************************************)
(* SpecStructure: formatAudioPenStyle applied to one text, step by step:   *)
(* the clean-up, the split into sentences, the dispatch to a format.       *)
(***************************************************************************)
\* texts of a few characters: a letter, whitespace and punctuation
StructureChars == {"a", Space, Newline, ",", "."}

\* sentences with the signal words of the dispatch and of the formats
SignalSentences ==
    { <<"a", ".">>,
      <<"-", Space, "t", "h", "e", "n", Space, "c", ".">>,
      <<"w", "e", Space, "w", "i", "l", "l", Space, "d", ".">>,
      <<"w", "i", "l", "l", Space, "e", "?">>,
      <<"t", "e", "a", "m", Space, "t", "a", "l", "k", ".">>,
      <<"I", Space, "m", "u", "s", "t", Space, "t", "a", "l", "k", "!">> }

\* sentences without signal words, one of them opening with a transition
PlainSentences ==
    { <<"a", ".">>,
      <<"b", "u", "t", Space, "d", ".">> }

\* the sequences over items of length at most n, each joined by single spaces
JoinedUpTo(items, n) == {join(parts, <<Space>>) : parts \in StringsUpTo(items, n)}

StructureTexts ==
    StringsUpTo(StructureChars, MaxChars)
        \cup JoinedUpTo(SignalSentences, MaxSentences)
        \cup JoinedUpTo(PlainSentences, MaxPlain)

StructureInit ==
    /\ penText \in StructureTexts
    /\ penCleaned = <<>>
    /\ penSentences = <<>>
    /\ penFormat = "none"
    /\ penResult = <<>>
    /\ penPc = "called"
    /\ MergeIdle
    /\ FormatIdle
    /\ PageIdle
    /\ TitleIdle

\* if (!text || !text.trim()) return text
StructureBlank ==
    /\ penPc = "called"
    /\ (penText = <<>> \/ isBlank(penText))
    /\ penResult' = penText
    /\ penPc' = "returned"
    /\ UNCHANGED <<penText, penCleaned, penSentences, penFormat, mergeVars,
                   formatVars, pageVars, titleVars>>

\* let cleaned = text.replace(...).replace(...).replace(...).trim()
StructureClean ==
    /\ penPc = "called"
    /\ ~(penText = <<>> \/ isBlank(penText))
    /\ penCleaned' = normalize(penText)
    /\ penPc' = "cleaned"
    /\ UNCHANGED <<penText, penSentences, penFormat, penResult, mergeVars,
                   formatVars, pageVars, titleVars>>

\* const sentences = cleaned.split(...).map(...).filter(...)
StructureSplit ==
    /\ penPc = "cleaned"
    /\ penSentences' = splitSentences(penCleaned)
    /\ penPc' = "split"
    /\ UNCHANGED <<penText, penCleaned, penFormat, penResult, mergeVars,
                   formatVars, pageVars, titleVars>>

\* the return of cleaned when there is no sentence, or else the detection of
\* the content type and the call of the format it selects
StructureDispatch ==
    /\ penPc = "split"
    /\ LET format == chooseFormat(penCleaned, penSentences)
       IN  /\ penFormat' = format
           /\ penResult' =
                  CASE format = "cleaned" -> penCleaned
                    [] format = "meeting" -> formatMeetingStyle(penSentences)
                    [] format = "list" -> formatListStyle(penSentences)
                    [] format = "natural" -> formatNaturalStyle(penSentences)
    /\ penPc' = "returned"
    /\ UNCHANGED <<penText, penCleaned, penSentences, mergeVars, formatVars,
                   pageVars, titleVars>>

StructureNext ==
    \/ StructureBlank
    \/ StructureClean
    \/ StructureSplit
    \/ StructureDispatch

SpecStructure == StructureInit /\ [][StructureNext]_vars

(***************************************************************************)
(* SpecTitle: generateTitle applied to one text under one outcome of the   *)
(* remote title call.                                                      *)
(***************************************************************************)
TitleChars == {"a", Space, Newline, ".", "\""}

\* a text of n characters, all letters but for a space at the positions in
\* spaces
LongText(n, spaces) == [k \in 1..n |-> IF k \in spaces THEN Space ELSE "a"]

\* first sentences around the limit of a title, without and with a space
\* where the cut falls, alone, quoted, and followed by a second sentence
LongTitleTexts ==
    { pre \o LongText(n, spaces) \o post :
          pre \in {<<>>, <<"\"">>},
          n \in (titleKeep - 1)..(titleLimit + MaxOver),
          spaces \in {{}, {titleKeep}, {titleKeep - 1, titleKeep}},
          post \in {<<>>, <<".">>, <<".", Space, "a">>} }

TitleTexts == StringsUpTo(TitleChars, MaxTitleChars) \cup LongTitleTexts

\* the completion contents of a success response to the title request
TitleCompletions ==
    { <<>>,
      <<Space>>,
      <<"o", "k">>,
      <<"\"", "o", "k", "\"", Newline>>,
      <<"o", Newline, "k">>,
      <<Backtick, Backtick, Backtick, "j", "s", Newline, Newline,
        Backtick, Backtick, Backtick>> }

TitleResponses ==
    {NetworkError, StatusError, BadJson, NoMessage, NoContent}
        \cup {Completion(c) : c \in TitleCompletions}

TitleInit ==
    /\ titleText \in TitleTexts
    /\ titleResponse \in TitleResponses
    /\ titleRequests = 0
    /\ titleResult = [threw |-> FALSE, value |-> <<>>, requests |-> 0]
    /\ titlePc = "called"
    /\ MergeIdle
    /\ FormatIdle
    /\ PageIdle
    /\ StructureIdle

\* generateTitle returns before any request: if (!source) return ''
TitleEmpty ==
    /\ titlePc = "called"
    /\ generateTitle(titleText, titleResponse).requests = 0
    /\ titleResult' = generateTitle(titleText, titleResponse)
    /\ titlePc' = "returned"
    /\ UNCHANGED <<titleText, titleResponse, titleRequests, mergeVars, formatVars,
                   pageVars, structureVars>>

\* generateTitle calls generateTitleWithDeepseek, which issues the request
TitleRequest ==
    /\ titlePc = "called"
    /\ generateTitle(titleText, titleResponse).requests > 0
    /\ titleRequests' = titleRequests + 1
    /\ titlePc' = "awaiting"
    /\ UNCHANGED <<titleText, titleResponse, titleResult, mergeVars, formatVars,
                   pageVars, structureVars>>

\* the request settles and generateTitle returns the remote title or the
\* title of its catch clause
TitleSettles ==
    /\ titlePc = "awaiting"
    /\ titleResult' = generateTitle(titleText, titleResponse)
    /\ titlePc' = "returned"
    /\ UNCHANGED <<titleText, titleResponse, titleRequests, mergeVars, formatVars,
                   pageVars, structureVars>>

TitleNext ==
    \/ TitleEmpty
    \/ TitleRequest
    \/ TitleSettles

SpecTitle == TitleInit /\ [][TitleNext]_vars

(***************************************************************************)
(* Spec: the recording page.  One mount of RecordingPage, from the start   *)
(* of initSTT to the navigation away from the page, with any number of     *)
(* recording sessions in between.                                          *)
(***************************************************************************)
\* what the recognizer passes when it has no transcript
Undefined == <<"undefined">>

\* the transcripts the recognizer delivers: nothing, the empty string, a
\* blank, a first word, its continuation, an overlapping restart, a fragment
Transcripts ==
    { Undefined, <<>>, <<Space>>, <<"a">>, <<"a", "b">>, <<"b", "c">>, <<"c">> }

\* what getTranscriptFromSTT(sttRef.current) may return: any string
SttTranscripts == Transcripts \ {Undefined}

\* maxAttempts of handleStop
maxAttempts == 3

\* the outcomes of the remote call that handleStop's formatWithAI may meet
PageResponses == {NetworkError, Completion(<<>>), Completion(<<"o", "k">>)}

\* transcript || ''
orEmpty(transcript) == IF transcript = Undefined THEN <<>> ELSE transcript

\* The page once its mount effect has run up to the import of the library:
\* isInitializing is set and no recognizer exists yet.
Init ==
    /\ route = "recording"
    /\ isInitializing = TRUE
    /\ sttRef = "null"
    /\ isRecording = FALSE
    /\ isProcessing = FALSE
    /\ currentTranscript = <<>>
    /\ accumulatedTranscriptRef = <<>>
    /\ sttState = "idle"
    /\ delivered = <<>>
    /\ stopPc = "idle"
    /\ closureTranscript = <<>>
    /\ transcribedText = <<>>
    /\ attempts = 0
    /\ stored = FALSE
    /\ storedFormattedNote = <<>>
    /\ storedRawText = <<>>
    /\ MergeIdle
    /\ FormatIdle
    /\ StructureIdle
    /\ TitleIdle

\* initSTT creates the STTLogic instance and stores it in sttRef
InitSTT ==
    /\ route = "recording"
    /\ isInitializing
    /\ sttRef' = "ready"
    /\ isInitializing' = FALSE
    /\ UNCHANGED <<route, isRecording, isProcessing, currentTranscript,
                   accumulatedTranscriptRef, sttState, delivered, stopPc,
                   closureTranscript, transcribedText, attempts, stored,
                   storedFormattedNote, storedRawText, mergeVars, formatVars, structureVars, titleVars>>

\* initSTT fails (no SpeechRecognition, or the import or the constructor
\* throws): alert and router.push('/')
InitSTTFails ==
    /\ route = "recording"
    /\ isInitializing
    /\ isInitializing' = FALSE
    /\ route' = "home"
    /\ UNCHANGED <<sttRef, isRecording, isProcessing, currentTranscript,
                   accumulatedTranscriptRef, sttState, delivered, stopPc,
                   closureTranscript, transcribedText, attempts, stored,
                   storedFormattedNote, storedRawText, mergeVars, formatVars, structureVars, titleVars>>

\* the microphone button can be clicked
ButtonEnabled == route = "recording" /\ ~isInitializing /\ ~isProcessing

\* a variant of the start that keeps the buffer and the transcript of the
\* session before
StartRecordingKeepsBuffer ==
    /\ ButtonEnabled
    /\ ~isRecording
    /\ sttRef = "ready"
    /\ isRecording' = TRUE
    /\ delivered' = <<>>
    /\ sttState' = "listening"
    /\ UNCHANGED <<route, isInitializing, sttRef, isProcessing, stopPc,
                   accumulatedTranscriptRef, currentTranscript,
                   closureTranscript, transcribedText, attempts, stored,
                   storedFormattedNote, storedRawText, mergeVars, formatVars,
                   structureVars, titleVars>>

\* a click while not recording: setIsRecording(true), and the effect on
\* isRecording that follows it: the buffer and the displayed transcript are
\* reset and the recognizer is started
StartRecording ==
    /\ ButtonEnabled
    /\ ~isRecording
    /\ sttRef = "ready"
    /\ isRecording' = TRUE
    /\ accumulatedTranscriptRef' = <<>>
    /\ currentTranscript' = <<>>
    /\ delivered' = <<>>
    /\ sttState' = "listening"
    /\ UNCHANGED <<route, isInitializing, sttRef, isProcessing, stopPc,
                   closureTranscript, transcribedText, attempts, stored,
                   storedFormattedNote, storedRawText, mergeVars, formatVars, structureVars, titleVars>>

\* the same click when sttRef.current.start() throws: the catch clause sets
\* isRecording back to false, after the reset
StartRecordingFails ==
    /\ ButtonEnabled
    /\ ~isRecording
    /\ sttRef = "ready"
    /\ isRecording' = FALSE
    /\ accumulatedTranscriptRef' = <<>>
    /\ currentTranscript' = <<>>
    /\ delivered' = <<>>
    /\ UNCHANGED <<route, isInitializing, sttRef, isProcessing, sttState, stopPc,
                   closureTranscript, transcribedText, attempts, stored,
                   storedFormattedNote, storedRawText, mergeVars, formatVars, structureVars, titleVars>>

\* a variant of the callback that merges into the currentTranscript its
\* closure captured when the recognizer was created, the empty string
OnTranscriptStaleState(transcript) ==
    /\ route = "recording"
    /\ sttRef = "ready"
    /\ sttState \in {"listening", "stopping"}
    /\ Len(delivered) < MaxEvents
    /\ LET merging == mergeTranscripts(<<>>, orEmpty(transcript))
       IN  /\ accumulatedTranscriptRef' = merging
           /\ currentTranscript' = merging
    /\ delivered' = Append(delivered, transcript)
    /\ UNCHANGED <<route, isInitializing, sttRef, isRecording, isProcessing,
                   sttState, stopPc, closureTranscript, transcribedText, attempts,
                   stored, storedFormattedNote, storedRawText, mergeVars,
                   formatVars, structureVars, titleVars>>

\* the transcript callback of the recognizer, called with one update while
\* the recognizer listens or delivers its last results after stop()
OnTranscript(transcript) ==
    /\ route = "recording"
    /\ sttRef = "ready"
    /\ sttState \in {"listening", "stopping"}
    /\ Len(delivered) < MaxEvents
    /\ LET merging == mergeTranscripts(accumulatedTranscriptRef, orEmpty(transcript))
       IN  /\ accumulatedTranscriptRef' = merging
           /\ currentTranscript' = merging
    /\ delivered' = Append(delivered, transcript)
    /\ UNCHANGED <<route, isInitializing, sttRef, isRecording, isProcessing,
                   sttState, stopPc, closureTranscript, transcribedText, attempts,
                   stored, storedFormattedNote, storedRawText, mergeVars,
                   formatVars, structureVars, titleVars>>

\* the recognizer has delivered its last result after stop()
SttSettles ==
    /\ route = "recording"
    /\ sttState = "stopping"
    /\ sttState' = "idle"
    /\ UNCHANGED <<route, isInitializing, sttRef, isRecording, isProcessing,
                   currentTranscript, accumulatedTranscriptRef, delivered, stopPc,
                   closureTranscript, transcribedText, attempts, stored,
                   storedFormattedNote, storedRawText, mergeVars, formatVars, structureVars, titleVars>>

\* a click while recording: handleStop up to its first await.  The closure
\* of handleStop holds the currentTranscript of the render it was made in.
HandleStop ==
    /\ ButtonEnabled
    /\ isRecording
    /\ sttRef = "ready"
    /\ isProcessing' = TRUE
    /\ isRecording' = FALSE
    /\ sttState' = "stopping"
    /\ closureTranscript' = currentTranscript
    /\ transcribedText' = <<>>
    /\ attempts' = 0
    /\ stopPc' = "reading"
    /\ UNCHANGED <<route, isInitializing, sttRef, currentTranscript,
                   accumulatedTranscriptRef, delivered, stored,
                   storedFormattedNote, storedRawText, mergeVars, formatVars, structureVars, titleVars>>

\* the same click when sttRef.current.stop() throws: the catch clause of
\* handleStop alerts and clears isProcessing
HandleStopFails ==
    /\ ButtonEnabled
    /\ isRecording
    /\ sttRef = "ready"
    /\ isProcessing' = FALSE
    /\ isRecording' = FALSE
    /\ UNCHANGED <<route, isInitializing, sttRef, currentTranscript,
                   accumulatedTranscriptRef, sttState, delivered, stopPc,
                   closureTranscript, transcribedText, attempts, stored,
                   storedFormattedNote, storedRawText, mergeVars, formatVars, structureVars, titleVars>>

\* a variant of the loop that goes on for as long as the text is empty
HandleStopReadUntilText(fromStt) ==
    /\ stopPc = "reading"
    /\ transcribedText = <<>>
    /\ attempts < maxAttempts
    /\ LET fromState == trim(closureTranscript)
           text == IF fromState # <<>> THEN fromState ELSE trim(fromStt)
       IN  /\ transcribedText' = text
           /\ attempts' = attempts + 1
           /\ stopPc' = IF text = <<>> THEN "reading" ELSE "read"
    /\ UNCHANGED <<route, isInitializing, sttRef, isRecording, isProcessing,
                   currentTranscript, accumulatedTranscriptRef, sttState,
                   delivered, closureTranscript, stored, storedFormattedNote,
                   storedRawText, mergeVars, formatVars, structureVars, titleVars>>

\* one turn of the loop "while (!transcribedText && attempts < maxAttempts)",
\* entered after the wait that precedes it; fromStt is what
\* getTranscriptFromSTT returns if it is called
HandleStopRead(fromStt) ==
    /\ stopPc = "reading"
    /\ transcribedText = <<>>
    /\ attempts < maxAttempts
    /\ LET fromState == trim(closureTranscript)
           text == IF fromState # <<>> THEN fromState ELSE trim(fromStt)
       IN  /\ transcribedText' = text
           /\ attempts' = attempts + 1
           /\ stopPc' = IF text = <<>> /\ attempts + 1 < maxAttempts
                        THEN "reading"
                        ELSE "read"
    /\ UNCHANGED <<route, isInitializing, sttRef, isRecording, isProcessing,
                   currentTranscript, accumulatedTranscriptRef, sttState,
                   delivered, closureTranscript, stored, storedFormattedNote,
                   storedRawText, mergeVars, formatVars, structureVars, titleVars>>

\* after the loop, with a transcript: handleStop calls formatWithAI and
\* awaits it
HandleStopFormat ==
    /\ stopPc = "read"
    /\ transcribedText # <<>>
    /\ stopPc' = "formatting"
    /\ UNCHANGED <<route, isInitializing, sttRef, isRecording, isProcessing,
                   currentTranscript, accumulatedTranscriptRef, sttState,
                   delivered, closureTranscript, transcribedText, attempts,
                   stored, storedFormattedNote, storedRawText, mergeVars,
                   formatVars, structureVars, titleVars>>

\* formatWithAI has returned: the note is stored and the router leaves for
\* the results page
HandleStopStore(resp, fault) ==
    /\ stopPc = "formatting"
    /\ LET formatted == formatWithAI(transcribedText, resp, fault)
       IN  /\ ~formatted.threw
           /\ storedFormattedNote' = formatted.value
    /\ storedRawText' = transcribedText
    /\ stored' = TRUE
    /\ route' = "results"
    /\ stopPc' = "idle"
    /\ UNCHANGED <<isInitializing, sttRef, isRecording, isProcessing,
                   currentTranscript, accumulatedTranscriptRef, sttState,
                   delivered, closureTranscript, transcribedText, attempts,
                   mergeVars, formatVars, structureVars, titleVars>>

\* after the loop, without a transcript: the alert, and isProcessing cleared
HandleStopNoSpeech ==
    /\ stopPc = "read"
    /\ transcribedText = <<>>
    /\ isProcessing' = FALSE
    /\ stopPc' = "idle"
    /\ UNCHANGED <<route, isInitializing, sttRef, isRecording, currentTranscript,
                   accumulatedTranscriptRef, sttState, delivered,
                   closureTranscript, transcribedText, attempts, stored,
                   storedFormattedNote, storedRawText, mergeVars, formatVars, structureVars, titleVars>>

Next ==
    \/ InitSTT
    \/ InitSTTFails
    \/ StartRecording
    \/ StartRecordingFails
    \/ \E transcript \in Transcripts : OnTranscript(transcript)
    \/ SttSettles
    \/ HandleStop
    \/ HandleStopFails
    \/ \E fromStt \in SttTranscripts : HandleStopRead(fromStt)
    \/ HandleStopFormat
    \/ \E resp \in PageResponses, fault \in BOOLEAN : HandleStopStore(resp, fault)
    \/ HandleStopNoSpeech

Spec == Init /\ [][Next]_vars

(***************************************************************************)
(* Claims about the heuristic structurer (SpecStructure)                   *)
(***************************************************************************)
StructureReturned == penPc = "returned"

\* the words of s: its maximal runs of characters that are not whitespace,
\* with cur the word read so far
RECURSIVE wordsFrom(_, _)
wordsFrom(s, cur) ==
    IF s = <<>> THEN (IF cur = <<>> THEN {} ELSE {cur})
    ELSE IF Head(s) \in WhitespaceChars
         THEN (IF cur = <<>> THEN {} ELSE {cur}) \cup wordsFrom(Tail(s), <<>>)
         ELSE wordsFrom(Tail(s), Append(cur, Head(s)))

WordsOf(s) == wordsFrom(s, <<>>)

\* C11 as stated: whatever the format, every word of the normalized input
\* occurs in what formatAudioPenStyle returns.
C11_NoWordDropped ==
    StructureReturned =>
        \A w \in WordsOf(normalize(penText)) : includes(penResult, w)

\* what the selected format keeps of the k-th sentence
KeptOf(k) ==
    LET sentence == penSentences[k]
    IN  IF penFormat = "meeting"
           /\ ~includes(sentence, <<"?">>)
           /\ testAnyWord(sentence, ActionSentenceWords)
        THEN stripPronoun(sentence)
        ELSE IF penFormat = "list" THEN trim(stripListMarker(sentence))
        ELSE sentence

\* C11, amended: the sentences are the whole normalized input and each
\* occurs in the output in full, but for the leading pronoun (and the
\* whitespace after it) of a sentence filed as an action item in the meeting
\* format, and the leading list marker (and the whitespace after it) of a
\* sentence in the list format.
C11_OnlyPronounAndMarkerDropped ==
    /\ (StructureReturned /\ penFormat = "none") => penResult = penText
    /\ (StructureReturned /\ penFormat # "none") =>
           /\ join(penSentences, <<Space>>) = penCleaned
           /\ \A k \in 1..Len(penSentences) :
                  /\ includes(penResult, KeptOf(k))
                  /\ endsWith(penSentences[k], KeptOf(k))
                  /\ WordsOf(penSentences[k]) \ WordsOf(KeptOf(k))
                         \subseteq {first \in WordsOf(penSentences[k]) :
                                       startsWith(penSentences[k], first)}

\* the meeting format has filed "we will d." as an action item without "we"
C11_Witness ==
    /\ StructureReturned
    /\ penFormat = "meeting"
    /\ includes(penCleaned, <<"w", "e", Space, "w", "i", "l", "l">>)
    /\ ~includes(penResult, <<"w", "e">>)

\* C12: a text with at least one sentence gets exactly one format: the
\* meeting format if isMeeting and (hasActionItems or isList); otherwise the
\* list format if isList or there are more than 5 sentences; otherwise the
\* natural paragraphs; and what is returned is that format of the sentences.
C12_OneFormatByPriority ==
    (StructureReturned /\ Len(penSentences) >= 1) =>
        LET meeting == /\ isMeeting(penCleaned)
                       /\ (hasActionItems(penCleaned) \/ isList(penCleaned))
            list == isList(penCleaned) \/ Len(penSentences) > 5
        IN  /\ penFormat \in {"meeting", "list", "natural"}
            /\ penFormat = "meeting" <=> meeting
            /\ penFormat = "list" <=> (~meeting /\ list)
            /\ penFormat = "natural" <=> (~meeting /\ ~list)
            /\ penFormat = "meeting" => penResult = formatMeetingStyle(penSentences)
            /\ penFormat = "list" => penResult = formatListStyle(penSentences)
            /\ penFormat = "natural" => penResult = formatNaturalStyle(penSentences)

\* a text with both the meeting and the list signals got the meeting format
C12_Witness ==
    /\ StructureReturned
    /\ penFormat = "meeting"
    /\ isMeeting(penCleaned)
    /\ isList(penCleaned)
    /\ ~hasActionItems(penCleaned)
    /\ Len(penSentences) = 2

\* the first test a sentence passes, in the order question, action item,
\* discussion; 4 when it passes none
FirstTestPassed(sentence) ==
    IF includes(sentence, <<"?">>) THEN 3
    ELSE IF testAnyWord(sentence, ActionSentenceWords) THEN 2
    ELSE IF testAnyWord(sentence, DiscussionWords) THEN 1
    ELSE 4

\* the sentences whose first test passed is n, in their input order
RECURSIVE SentencesOfSection(_, _)
SentencesOfSection(sentences, n) ==
    IF sentences = <<>> THEN <<>>
    ELSE (IF FirstTestPassed(sentences[1]) = n THEN <<sentences[1]>> ELSE <<>>)
             \o SentencesOfSection(Tail(sentences), n)

\* a section: nothing when it has no sentence, or else its heading and one
\* line per sentence; the action items lose a leading pronoun
RECURSIVE SectionLines(_, _)
SectionLines(items, n) ==
    IF items = <<>> THEN <<>>
    ELSE (IF n = 4 THEN items[1] \o <<Newline, Newline>>
          ELSE <<Bullet, Space>>
                   \o (IF n = 2 THEN stripPronoun(items[1]) ELSE items[1])
                   \o <<Newline>>)
             \o SectionLines(Tail(items), n)

SectionHeadings == <<DiscussionHeading, ActionHeading, QuestionsHeading, NotesHeading>>

Section(sentences, n) ==
    LET items == SentencesOfSection(sentences, n)
    IN  IF items = <<>> THEN <<>>
        ELSE SectionHeadings[n] \o SectionLines(items, n)
                 \o (IF n = 4 THEN <<>> ELSE <<Newline>>)

\* C13: the meeting format files every sentence in exactly one bucket, the
\* one of the first test it passes in the order question, action item,
\* discussion, other; the non-empty buckets come out as sections in the
\* order Discussion Points, Action Items, Questions, Notes, and inside a
\* section the sentences are in their input order.
C13_BucketsAndSections ==
    (StructureReturned /\ penFormat = "meeting") =>
        /\ Len(bucket(penSentences, "questions"))
               + Len(bucket(penSentences, "actionItems"))
               + Len(bucket(penSentences, "discussion"))
               + Len(bucket(penSentences, "other")) = Len(penSentences)
        /\ penResult = trim(Section(penSentences, 1) \o Section(penSentences, 2)
                                \o Section(penSentences, 3) \o Section(penSentences, 4))

\* four sentences, one for each bucket, the question also passing the test
\* of an action item, came out in the order of the sections
C13_Witness ==
    /\ StructureReturned
    /\ penFormat = "meeting"
    /\ penSentences = << <<"a", ".">>,
                         <<"w", "i", "l", "l", Space, "e", "?">>,
                         <<"w", "e", Space, "w", "i", "l", "l", Space, "d", ".">>,
                         <<"t", "e", "a", "m", Space, "t", "a", "l", "k", ".">> >>
    /\ startsWith(penResult, DiscussionHeading \o <<Bullet, Space, "t", "e", "a", "m", Space, "t", "a", "l", "k", ".", Newline>>)
    /\ endsWith(penResult, NotesHeading \o <<"a", ".">>)
    /\ includes(penResult, QuestionsHeading \o <<Bullet, Space, "w", "i", "l", "l", Space, "e", "?", Newline>>)

\* the lines of s: the pieces between its newlines, with cur the line read
\* so far
RECURSIVE linesFrom(_, _)
linesFrom(s, cur) ==
    IF s = <<>> THEN <<cur>>
    ELSE IF Head(s) = Newline THEN <<cur>> \o linesFrom(Tail(s), <<>>)
    ELSE linesFrom(Tail(s), Append(cur, Head(s)))

LinesOf(s) == linesFrom(s, <<>>)

\* a sentence less one leading list marker and the whitespace after it
WithoutMarker(sentence) ==
    IF sentence # <<>> /\ Head(sentence) \in {"-", Bullet, "*"}
    THEN trim(Tail(sentence))
    ELSE sentence

\* C14: the list format of n sentences is n lines, the i-th being the bullet
\* glyph, a space and the i-th sentence less one leading list marker.
C14_OneBulletLinePerSentence ==
    (StructureReturned /\ penFormat = "list") =>
        /\ Len(LinesOf(penResult)) = Len(penSentences)
        /\ \A i \in 1..Len(penSentences) :
               LinesOf(penResult)[i] = <<Bullet, Space>> \o WithoutMarker(penSentences[i])

\* 7 sentences without a list or meeting word came out as 7 bullet lines
C14_Witness ==
    /\ StructureReturned
    /\ penFormat = "list"
    /\ Len(penSentences) = 7
    /\ ~isList(penCleaned)
    /\ ~isMeeting(penCleaned)
    /\ Len(LinesOf(penResult)) = 7
    /\ \A i \in 1..7 : Head(LinesOf(penResult)[i]) = Bullet

\* a sentence that begins with a transition word, in any case of letters
BeginsWithTransition(sentence) ==
    \E word \in TransitionWords : startsWith(toLowerCase(sentence), word)

\* the sentences from the i-th on, written as paragraphs that end after the
\* sentences whose indices are in cuts: a blank line between paragraphs, a
\* space between the sentences of a paragraph
RECURSIVE ParagraphsFrom(_, _, _)
ParagraphsFrom(sentences, cuts, i) ==
    IF i > Len(sentences) THEN <<>>
    ELSE sentences[i]
             \o (IF i = Len(sentences) THEN <<>>
                 ELSE IF i \in cuts THEN <<Newline, Newline>>
                 ELSE <<Space>>)
             \o ParagraphsFrom(sentences, cuts, i + 1)

\* C15: the natural format writes the sentences, in order, as consecutive
\* paragraphs of 1 to 4 sentences each, and every sentence but the first
\* that begins with a transition word opens a paragraph.
C15_ParagraphsOfAtMostFour ==
    (StructureReturned /\ penFormat = "natural") =>
        \E cuts \in SUBSET (1..(Len(penSentences) - 1)) :
            /\ penResult = ParagraphsFrom(penSentences, cuts, 1)
            /\ \A i \in 1..(Len(penSentences) - 4) :
                   \E c \in cuts : i <= c /\ c <= i + 3
            /\ \A i \in 2..Len(penSentences) :
                   BeginsWithTransition(penSentences[i]) => (i - 1) \in cuts

\* five sentences, the second opening with "but": a paragraph of one
\* sentence and a paragraph of four
C15_Witness ==
    /\ StructureReturned
    /\ penFormat = "natural"
    /\ penSentences = << <<"a", ".">>, <<"b", "u", "t", Space, "d", ".">>, <<"a", ".">>, <<"a", ".">>, <<"a", ".">> >>
    /\ penResult = ParagraphsFrom(penSentences, {1}, 1)

\* the clean-up has run
StructureCleaned == penPc \in {"cleaned", "split"} \/ (StructureReturned /\ penFormat # "none")

\* C16: the clean-up is idempotent: applied to its own output it returns
\* that output.
C16_NormalizeIdempotent ==
    StructureCleaned => normalize(penCleaned) = penCleaned

\* a text the clean-up changes, and its cleaned form
C16_Witness ==
    /\ penPc = "cleaned"
    /\ penText = <<"a", Newline, ",", "a">>
    /\ penCleaned = <<"a", ",", Space, "a">>

\* C17: in the cleaned text every whitespace character is a single space
\* between two other characters, no punctuation character follows
\* whitespace, and every punctuation character but the last character is
\* followed by exactly one space.
C17_CleanedIsNormalForm ==
    StructureCleaned =>
        \A k \in 1..Len(penCleaned) :
            /\ penCleaned[k] \in WhitespaceChars =>
                   /\ penCleaned[k] = Space
                   /\ k < Len(penCleaned) => penCleaned[k + 1] \notin WhitespaceChars
            /\ (penCleaned[k] \in PunctChars /\ k > 1) =>
                   penCleaned[k - 1] \notin WhitespaceChars
            /\ (penCleaned[k] \in PunctChars /\ k < Len(penCleaned)) =>
                   penCleaned[k + 1] = Space

(***************************************************************************)
(* Claims about generateTitle (SpecTitle)                                  *)
(***************************************************************************)
TitleReturned == titlePc = "returned"

\* the remote title call fails: no response, a non-success status, a body
\* that is not JSON, or a completion that is missing or blank
TitleRemoteFailed ==
    \/ titleResponse.kind \in {"network", "status", "badjson"}
    \/ ~titleResponse.hasMessage
    \/ ~titleResponse.hasContent
    \/ isBlank(titleResponse.content)

\* the text with its whitespace collapsed and trimmed
TitleSource == trim(collapseWhitespace(titleText))

\* the first sentence of s: from the first character that does not end a
\* sentence up to the first sentence end after it, or to the end of s; s
\* itself, cut at the limit, when every character of s ends a sentence
FirstSentenceOf(s) ==
    LET starts == {i \in 1..Len(s) : s[i] \notin SentenceEndChars}
    IN  IF starts = {} THEN SubSeq(s, 1, Min(titleLimit, Len(s)))
        ELSE LET from == CHOOSE i \in starts : \A j \in starts : i <= j
                 ends == {j \in from..Len(s) : s[j] \in SentenceEndChars}
                 to == IF ends = {} THEN Len(s)
                       ELSE CHOOSE j \in ends : \A k \in ends : j <= k
             IN  trim(SubSeq(s, from, to))

\* C18: when the remote title call fails, generateTitle on non-blank text
\* does not throw and returns the sanitized first sentence, cut to its first
\* 57 characters and an ellipsis when it is longer than 60: a title of at
\* most 60 characters, without a line break, that neither begins nor ends
\* with a quote or a whitespace character.
C18_FallbackTitle ==
    (TitleReturned /\ ~isBlank(titleText) /\ TitleRemoteFailed) =>
        LET title == titleResult.value
            first == FirstSentenceOf(TitleSource)
        IN  /\ ~titleResult.threw
            /\ Len(title) <= titleLimit
            /\ \A k \in 1..Len(title) : title[k] \notin {Newline, "\r"}
            /\ title # <<>> =>
                   /\ title[1] \notin QuoteOrSpaceChars
                   /\ title[Len(title)] \notin QuoteOrSpaceChars
            /\ Len(first) <= titleLimit => title = sanitizeTitle(first)
            /\ Len(first) > titleLimit =>
                   title = sanitizeTitle(trim(SubSeq(first, 1, titleKeep)) \o <<Ellipsis>>)

\* a first sentence of 61 letters, the completion blank: 57 letters and an
\* ellipsis
C18_Witness ==
    /\ TitleReturned
    /\ titleText = LongText(titleLimit + 1, {})
    /\ titleResponse = Completion(<<Space>>)
    /\ titleResult.value = LongText(titleKeep, {}) \o <<Ellipsis>>

\* C19: for a text that is empty after trimming generateTitle returns the
\* empty title, and a remote title request is only ever issued for a text
\* that is not.
C19_NoRequestForBlankText ==
    /\ titleRequests > 0 => ~isBlank(titleText)
    /\ (TitleReturned /\ isBlank(titleText)) =>
           /\ ~titleResult.threw
           /\ titleResult.value = <<>>
           /\ titleRequests = 0

\* a text of whitespace got the empty title without a request, though the
\* remote call would have given a title
C19_Witness ==
    /\ TitleReturned
    /\ titleText = <<Space, Newline>>
    /\ titleResponse = Completion(<<"o", "k">>)
    /\ titleRequests = 0
    /\ titleResult.value = <<>>

\* the waits inside handleStop are timers, which expire: a turn of the read
\* loop that can be taken is taken
SpecStop ==
    Spec /\ WF_vars(\E fromStt \in SttTranscripts : HandleStopRead(fromStt))

(***************************************************************************)
(* Claims about the buffer of the recording page (Spec)                    *)
(***************************************************************************)
\* a step of the start effect, which opens a session
SessionReset == StartRecording \/ StartRecordingFails

\* C1: within a session the buffer never loses content: the step of every
\* transcript update leaves the old buffer a substring of the new one, and
\* no step but a session reset makes the buffer shorter.
C1_BufferNeverLosesContent ==
    [][ /\ (Len(delivered') > Len(delivered)) =>
               includes(accumulatedTranscriptRef', accumulatedTranscriptRef)
        /\ ~SessionReset =>
               Len(accumulatedTranscriptRef') >= Len(accumulatedTranscriptRef)
      ]_vars

\* a continuation and then a stale fragment have been merged
C1_Witness ==
    /\ delivered = << <<"a", "b">>, <<"b", "c">>, <<"a">> >>
    /\ accumulatedTranscriptRef = <<"a", "b", "c">>

\* merge(...merge(merge("", u1), u2)..., un)
RECURSIVE FoldMerge(_)
FoldMerge(us) ==
    IF us = <<>>
    THEN <<>>
    ELSE mergeTranscripts(FoldMerge(SubSeq(us, 1, Len(us) - 1)),
                          orEmpty(us[Len(us)]))

\* C2: the updates of a session are applied once each and in the order of
\* their delivery: after every callback the buffer, and the transcript on
\* display, is the left fold of the merge over the updates delivered so far.
C2_AppliedOnceInOrder ==
    /\ accumulatedTranscriptRef = FoldMerge(delivered)
    /\ currentTranscript = accumulatedTranscriptRef

\* an update delivered after the click on stop has been merged into the
\* buffer of the updates before it
C2_Witness ==
    /\ stopPc = "reading"
    /\ closureTranscript = <<"a", "b">>
    /\ delivered = << <<"a", "b">>, <<"b", "c">> >>
    /\ accumulatedTranscriptRef = <<"a", "b", "c">>

\* C21: a recording session starts with an empty buffer and an empty
\* transcript on display, whatever the session before it left there, and
\* both stay as the start left them until an update is merged: the step that
\* turns isRecording on empties both, and no step but the start of a session
\* and the merge of an update changes either.
C21_SessionStartsEmpty ==
    [][ /\ (~isRecording /\ isRecording') =>
               /\ accumulatedTranscriptRef' = <<>>
               /\ currentTranscript' = <<>>
        /\ (\/ accumulatedTranscriptRef' # accumulatedTranscriptRef
            \/ currentTranscript' # currentTranscript) =>
               \/ SessionReset
               \/ Len(delivered') = Len(delivered) + 1
      ]_vars

\* a second session has started and has merged nothing yet; the session
\* before it, stopped without speech, had left a blank in the transcript
C21_Witness ==
    /\ isRecording
    /\ sttState = "listening"
    /\ delivered = <<>>
    /\ closureTranscript = <<Space>>
    /\ attempts = maxAttempts
    /\ accumulatedTranscriptRef = <<>>
    /\ currentTranscript = <<>>

\* C22: the text handleStop hands to formatWithAI is the trimmed content of
\* the buffer at the moment handleStop reads its text, every update merged
\* since the click on stop included.  Stated for the reads that take the
\* text from the page (a non-blank transcript, the recognizer is not asked):
\* the step of the read loop that ends with a text leaves in transcribedText
\* the trimmed buffer of that moment.
C22_StructurerReceivesBuffer ==
    [][ ( /\ stopPc = "reading"
          /\ stopPc' = "read"
          /\ trim(closureTranscript) # <<>> ) =>
            transcribedText' = trim(accumulatedTranscriptRef)
      ]_vars

\* C24: handleStop leaves its read loop after at most maxAttempts turns and
\* structures no empty transcript: a turn counts one attempt, the loop is
\* left, formatWithAI is entered only from the end of the loop with a text
\* that is trimmed and not blank and is left only by storing the note, and
\* an empty text after the last attempt ends handleStop with nothing
\* structured, nothing stored and isProcessing cleared.
C24_BoundedReadNoEmptyNote ==
    /\ [](attempts <= maxAttempts)
    /\ [](stopPc = "reading" => attempts < maxAttempts /\ transcribedText = <<>>)
    /\ (stopPc = "reading") ~> (stopPc = "read")
    /\ [][ /\ ( /\ stopPc = "reading"
                /\ (transcribedText' # transcribedText \/ stopPc' # stopPc) ) =>
                  attempts' = attempts + 1
           /\ (stopPc' = "formatting" /\ stopPc # "formatting") =>
                  /\ stopPc = "read"
                  /\ transcribedText' # <<>>
                  /\ ~isBlank(transcribedText')
                  /\ trim(transcribedText') = transcribedText'
           /\ (stopPc = "formatting" /\ stopPc' # "formatting") =>
                  /\ stored'
                  /\ storedRawText' = transcribedText
                  /\ route' = "results"
           /\ (stopPc = "read" /\ transcribedText = <<>> /\ stopPc' # "read") =>
                  /\ attempts = maxAttempts
                  /\ stopPc' = "idle"
                  /\ ~isProcessing'
                  /\ ~stored'
                  /\ route' = "recording"
           /\ (stored' /\ ~stored) => stopPc = "formatting"
         ]_vars

\* three attempts found no text: handleStop has ended, nothing is stored and
\* the button is enabled again
C24_Witness ==
    /\ stopPc = "idle"
    /\ attempts = maxAttempts
    /\ transcribedText = <<>>
    /\ delivered = << <<Space>> >>
    /\ sttState = "idle"
    /\ ~isRecording
    /\ ~isProcessing
    /\ ~stored
    /\ ButtonEnabled

(***************************************************************************)
(* Claims about the reconciler as a function (SpecMerge)                   *)
(***************************************************************************)
\* the page's merge has been applied to (previous, incoming)
MergeApplied == mpc # "args"

\* a suffix of p of length k equals a prefix of i
Overlaps(p, i, k) ==
    /\ k \in 1..Min(Len(p), Len(i))
    /\ SubSeq(p, Len(p) - k + 1, Len(p)) = SubSeq(i, 1, k)

HasOverlap(p, i) == \E k \in 1..Min(Len(p), Len(i)) : Overlaps(p, i, k)

NoContainment(p, i) == ~includes(p, i) /\ ~includes(i, p)

\* C6: when incoming contains previous as a substring, at the start or
\* anywhere else, the merge returns incoming exactly.
C6_SupersetReturnsIncoming ==
    (MergeApplied /\ includes(incoming, previous)) => merged = incoming

\* incoming contains a non-empty previous, not as a prefix
C6_Witness ==
    /\ MergeApplied
    /\ previous # <<>>
    /\ includes(incoming, previous)
    /\ ~startsWith(incoming, previous)
    /\ merged = incoming

\* incoming extends previous: it starts with previous and is longer
IsPrefixContinuation(p, i) == startsWith(i, p) /\ Len(i) > Len(p)

\* C7: when previous contains incoming as a substring and incoming is not a
\* prefix-continuation of previous, the merge returns previous unchanged,
\* also when a suffix of previous overlaps a prefix of incoming.
C7_StaleFragmentDiscarded ==
    (/\ MergeApplied
     /\ includes(previous, incoming)
     /\ ~IsPrefixContinuation(previous, incoming))
        => merged = previous

\* incoming is inside previous but not at its end, and a proper prefix of
\* incoming is a suffix of previous: the overlap rule would have lengthened
\* the buffer
C7_Witness ==
    /\ MergeApplied
    /\ includes(previous, incoming)
    /\ ~endsWith(previous, incoming)
    /\ \E k \in 1..(Len(incoming) - 1) : Overlaps(previous, incoming, k)
    /\ merged = previous

\* C8: the empty string is a two-sided identity of the merge.
C8_EmptyIsIdentity ==
    MergeApplied =>
        /\ (incoming = <<>> => merged = previous)
        /\ (previous = <<>> => merged = incoming)

\* a non-empty previous merged with the empty incoming
C8_Witness ==
    /\ MergeApplied
    /\ previous # <<>>
    /\ incoming = <<>>
    /\ merged = previous

HelloWor == <<"h", "e", "l", "l", "o", " ", "w", "o", "r">>
WorldPeace == <<"w", "o", "r", "l", "d", " ", "p", "e", "a", "c", "e">>
HelloWorldPeace ==
    <<"h", "e", "l", "l", "o", " ", "w", "o", "r", "l", "d", " ",
      "p", "e", "a", "c", "e">>

\* C9: when neither string contains the other and a non-empty suffix of
\* previous equals a prefix of incoming, the merge is previous followed by
\* incoming without its longest such prefix; "hello wor" merged with
\* "world peace" is "hello world peace".
C9_LongestOverlapRemoved ==
    /\ (/\ MergeApplied
        /\ NoContainment(previous, incoming)
        /\ HasOverlap(previous, incoming))
           => \E k \in 1..Min(Len(previous), Len(incoming)) :
                  /\ Overlaps(previous, incoming, k)
                  /\ \A j \in (k + 1)..Min(Len(previous), Len(incoming)) :
                         ~Overlaps(previous, incoming, j)
                  /\ merged = previous \o SubSeq(incoming, k + 1, Len(incoming))
    /\ mergeTranscripts(HelloWor, WorldPeace) = HelloWorldPeace

\* two overlaps of different lengths exist, so that longest and shortest differ
C9_Witness ==
    /\ MergeApplied
    /\ NoContainment(previous, incoming)
    /\ \E k, j \in 1..Min(Len(previous), Len(incoming)) :
           /\ k < j
           /\ Overlaps(previous, incoming, k)
           /\ Overlaps(previous, incoming, j)
           /\ merged = previous \o SubSeq(incoming, j + 1, Len(incoming))

\* neither rule above the fallback applies to two non-empty strings
FallbackCase ==
    /\ MergeApplied
    /\ previous # <<>>
    /\ incoming # <<>>
    /\ NoContainment(previous, incoming)
    /\ ~HasOverlap(previous, incoming)

Foo == <<"f", "o", "o">>
Bar == <<"b", "a", "r">>

\* C10 as stated: in the fallback case a space is inserted unless previous
\* ends with a whitespace character of any kind.
C10_AnyWhitespace ==
    FallbackCase =>
        merged = IF previous[Len(previous)] \in WhitespaceChars
                 THEN previous \o incoming
                 ELSE previous \o <<Space>> \o incoming

\* C10 as amended: in the fallback case a space is inserted unless previous
\* ends with the space character itself; merge("foo", "bar") is "foo bar".
C10_SpaceOnly ==
    /\ FallbackCase =>
           merged = IF previous[Len(previous)] = Space
                    THEN previous \o incoming
                    ELSE previous \o <<Space>> \o incoming
    /\ mergeTranscripts(Foo, Bar) = <<"f", "o", "o", " ", "b", "a", "r">>

\* previous ends with a tab and a space is inserted all the same
C10_Witness ==
    /\ FallbackCase
    /\ previous[Len(previous)] = Tab
    /\ merged = previous \o <<Space>> \o incoming

\* previous ends with a space and none is added
C10_WitnessSpace ==
    /\ FallbackCase
    /\ previous[Len(previous)] = Space
    /\ merged = previous \o incoming

\* both copies have been applied to (previous, incoming)
BothApplied == mpc = "both"

\* C20: the two copies of mergeTranscripts return the same string for every
\* pair of arguments, and two buffers that were equal and took the same
\* update through either copy are still equal after a further update.
C20_CopiesAgree ==
    BothApplied =>
        /\ mergedButton = merged
        /\ mergeTranscriptsButton(mergedButton, previous) = mergeTranscripts(merged, previous)
        /\ mergeTranscriptsButton(mergedButton, incoming) = mergeTranscripts(merged, incoming)

\* both copies removed the overlap of "ab" and "ba"
C20_Witness ==
    /\ BothApplied
    /\ previous = <<"a", "b">>
    /\ incoming = <<"b", "a">>
    /\ merged = <<"a", "b", "a">>
    /\ mergedButton = <<"a", "b", "a">>

\* C23: a merge loses nothing of the update: for every previous and
\* incoming, incoming is a substring of what either copy of mergeTranscripts
\* returns, and so is the later of two updates merged one after the other.
C23_IncomingContained ==
    /\ MergeApplied =>
          /\ includes(merged, incoming)
          /\ includes(mergeTranscripts(merged, previous), previous)
    /\ BothApplied => includes(mergedButton, incoming)

\* "ab" was merged into "ba": the overlap "a" is kept once and the update is
\* the end of the result
C23_Witness ==
    /\ BothApplied
    /\ previous = <<"b", "a">>
    /\ incoming = <<"a", "b">>
    /\ merged = <<"b", "a", "b">>
    /\ endsWith(merged, incoming)
    /\ mergedButton = merged

(***************************************************************************)
(* Claims about formatWithAI (SpecFormat)                                  *)
(***************************************************************************)
FormatSettled == fpc = "settled"

\* the remote call failed: a transport error, a non-success status, a body
\* that is not JSON, or a body without the completion field
RemoteFailed ==
    \/ response.kind \in {"network", "status", "badjson"}
    \/ ~response.hasMessage
    \/ ~response.hasContent

\* the completion of a success response, without surrounding whitespace and
\* code fence
CompletionText == trim(stripFenceClose(stripFenceOpen(trim(response.content))))

\* every character of s is one of the characters strings are made of here
IsString(s) ==
    /\ DOMAIN s = 1..Len(s)
    /\ \A k \in 1..Len(s) : s[k] \in STRING

\* C3: formatWithAI never raises to its caller: for every text and every
\* outcome of the remote call it completes by returning a string.
C3_NeverRaises ==
    FormatSettled => (~formatResult.threw /\ IsString(formatResult.value))

\* the empty text, a transport error and a failing heuristic structurer: the
\* two catch clauses were both taken
C3_Witness ==
    /\ FormatSettled
    /\ rawText = <<>>
    /\ response = NetworkError
    /\ heuristicFault
    /\ ~formatResult.threw
    /\ formatResult.tiers = <<"remote", "heuristic", "trivial">>

\* C4: the tiers run in the order remote, heuristic, trivial; the heuristic
\* structurer runs iff the remote call failed, the trivial bulleting iff the
\* heuristic structurer raised as well, and a successful remote call's
\* completion is the result with no lower tier run.
C4_TierOrder ==
    FormatSettled =>
        /\ formatResult.tiers \in
               { <<"remote">>, <<"remote", "heuristic">>,
                 <<"remote", "heuristic", "trivial">> }
        /\ (Len(formatResult.tiers) >= 2) <=> RemoteFailed
        /\ (Len(formatResult.tiers) = 3) <=> (RemoteFailed /\ heuristicFault)
        /\ ~RemoteFailed => formatResult.value = CompletionText
        /\ (RemoteFailed /\ ~heuristicFault)
               => formatResult.value = formatAudioPenStyle(rawText)
        /\ (RemoteFailed /\ heuristicFault)
               => formatResult.value = formatBasic(rawText)

\* a body without the completion field sends a text with a question to the
\* heuristic structurer, which returns it
C4_Witness ==
    /\ FormatSettled
    /\ response = NoMessage
    /\ ~heuristicFault
    /\ rawText = <<"a", "?">>
    /\ formatResult.tiers = <<"remote", "heuristic">>
    /\ formatResult.value = <<"a", "?">>

\* C5: for every non-blank text and every outcome of the remote call (the
\* heuristic structurer, where it runs, running to its end), the string
\* formatWithAI returns is non-empty.
C5_NonEmptyResult ==
    (FormatSettled /\ ~isBlank(rawText) /\ ~heuristicFault) =>
        (~formatResult.threw /\ formatResult.value # <<>>)

====
